---- MODULE Spec2Model ----
(***************************************************************************)
(* The training driver of models/quartznet_asr/finetune.py (main, train,   *)
(* save) and the write guard of models/quartznet_asr/inference.py (eval),  *)
(* as a state machine.                                                     *)
(*                                                                         *)
(* Metrics (WER/CER) are integers in units of 0.005, so that the           *)
(* improvement threshold 0.01 is 2 units and the start value 10000 of      *)
(* prev_best_wer is 2000000 units.                                         *)
(***************************************************************************)
EXTENDS Integers, Sequences, FiniteSets, TLC

\* ------------------------------------------------------------------ bounds
MaxAccum == 2          \* gradient_accumulation_steps ranges over 1..MaxAccum
MaxExamples == 3       \* len(data_layer) ranges over 0..MaxExamples
MaxNumSteps == 2       \* num_steps is None or in 1..MaxNumSteps
MaxNumEpochs == 3      \* num_epochs ranges over 1..MaxNumEpochs
MaxPatience == 2       \* early_stop_patience ranges over 1..MaxPatience
MaxWer == 2            \* an evaluation returns a metric in 0..MaxWer
MaxEpochRun == 3       \* the epoch counter is capped (guard of AfterLoop)
MaxRestarts == 1       \* number of times a run is killed and resumed
MaxWorld == 3          \* size of the process group in the multi-worker machine
MaxLr == 5             \* --lr ranges over 1..MaxLr, in units of half the floor 1e-10
MaxPolicyEpochs == 5   \* num_epochs of the schedules the LR policies are applied to
MaxPolicySteps == 4    \* step_per_epoch of those schedules
MaxBeyond == 3         \* the policies are applied up to MaxBeyond steps past the horizon
MaxParam == 1          \* an entry of a state dict ranges over 0..MaxParam
MaxGroup == 2          \* size of the group whose ranks all run train()

\* ------------------------------------------------------- program constants
ImprovementThreshold == 2      \* 0.01, finetune.py line 295
InitialBestWer == 2000000      \* 10000, finetune.py line 189
FloorLr == 2                   \* min_lr = 1e-10, finetune.py lines 46 and 51
WarmupDivisor == 10            \* warmup_portion = 0.1, finetune.py line 50

\* Python's None (the default of --num_steps; an unbound local; a missing file or
\* optimizer entry), encoded as -1, which no counter, metric or argument takes
None == -1

NoFile == [epoch |-> None, state_dict |-> None, optimizer |-> None]

VARIABLES
    args,                 \* the parsed arguments, with start_epoch and step_per_epoch
    pc,                   \* position of the process in main/train
    outcome,              \* how the run left the training loop
    epoch, step, patience,
    batch_counter,
    it,                   \* micro-batches pulled from train_dataloader in this epoch
    prev_best_wer, prev_best_epoch_wer,
    e_wer,                \* None while the local variable is unbound
    model,                \* model/optimizer state: number of optimizer.step() calls behind it
    disk,                 \* checkpoint directory -> content of <dir>/Jasper.pt, or NoFile
    restarts,
    h,                    \* history (not program state): counters the properties read
    world,                \* 0: torch.distributed is not initialised; n >= 1: n ranks
    wpc,                  \* rank -> position of that worker
    iargs,                \* which output files the inference driver was given
    writers,              \* history: file -> ranks that have written it
    lr,                   \* param_group['lr'] of the optimizer, a rational [n, d]
    grads,                \* backward() calls accumulated since optimizer.zero_grad()
    setup,                \* what main() has done so far before it calls train()
    rk,                   \* rank -> the local variables of train() on that rank
    draw                  \* the inputs and the result of a function under test

workers == <<world, wpc, iargs, writers>>

vars == <<args, pc, outcome, epoch, step, patience, batch_counter, it,
          prev_best_wer, prev_best_epoch_wer, e_wer, model, disk, restarts, h,
          world, wpc, iargs, writers, lr, grads, setup, rk, draw>>

Dirs == {"output_dir", "best_dir"}

\* inference.py, parse_args lines 50, 51 and 54
InferenceFiles == {"save_prediction", "logits_save_to", "output_file"}

Ranks(w) == 0..(IF w = 0 THEN 0 ELSE w - 1)

NoInferenceArgs == [f \in InferenceFiles |-> FALSE]
NoWriters == [f \in Dirs \cup InferenceFiles |-> {}]

\* values of the variables of the other machines while they are not running
NoSetup == <<>>
NoRanks == <<>>
NoDraw == <<>>

Min(a, b) == IF a < b THEN a ELSE b

CeilDiv(a, b) == (a + b - 1) \div b

\* ------------------------------------------------- learning rates as rationals
\* A learning rate is the rational n / d (d > 0) of the unit 0.5e-10.  The float
\* operations of the policies (one division, a square or a product, max) are monotone
\* and exact at the points the properties name (x / x = 1.0, 0 / x = 0.0), so the
\* rationals order and equate the values as the floats do.
Rat(n, d) == [n |-> n, d |-> d]

\* the value that stands for a raised ZeroDivisionError
DivByZero == Rat(0, 0)

RatLeq(a, b) == a.n * b.d <= b.n * a.d
RatLess(a, b) == a.n * b.d < b.n * a.d
RatEq(a, b) == a.n * b.d = b.n * a.d

\* Python's max(a, b)
RatMax(a, b) == IF RatLess(a, b) THEN b ELSE a

lr_policy_NoFloor(initial_lr, s, N) ==
    IF N = 0 THEN DivByZero
    ELSE Rat(initial_lr * (N - s) * (N - s), N * N)

\* lr_policy, lines 38-48
lr_policy(initial_lr, s, N) ==
    IF N = 0 THEN DivByZero
    ELSE RatMax(Rat(initial_lr * (N - s) * (N - s), N * N), Rat(FloorLr, 1))

\* line 53: math.floor(warmup_portion * N)
WarmupSteps(N) == N \div WarmupDivisor

warmup_decay_policy_ZeroIndexed(initial_lr, s, N) ==
    LET warmup_steps == WarmupSteps(N)
        remaining_steps == N - warmup_steps
    IN  IF s <= warmup_steps
        THEN IF warmup_steps = 0 THEN DivByZero ELSE Rat(initial_lr * s, warmup_steps)
        ELSE IF remaining_steps = 0 THEN DivByZero
        ELSE RatMax(Rat(initial_lr * (N - s), remaining_steps), Rat(FloorLr, 1))

\* warmup_decay_policy, lines 50-60
warmup_decay_policy(initial_lr, s, N) ==
    LET s1 == s + 1
        warmup_steps == WarmupSteps(N)
        remaining_steps == N - warmup_steps
    IN  IF s1 <= warmup_steps
        THEN Rat(initial_lr * s1, warmup_steps)
        ELSE IF remaining_steps = 0 THEN DivByZero
        ELSE RatMax(Rat(initial_lr * (N - s1), remaining_steps), Rat(FloorLr, 1))

\* main, lines 448 and 450: the horizon handed to the policy
TotalSteps(a) == a.num_epochs * a.step_per_epoch

\* main, lines 447-452: fn_lr_policy, where it is not None
fn_lr_policy(a, s) ==
    IF a.lr_decay = "decay"
    THEN lr_policy(a.lr, s, TotalSteps(a))
    ELSE warmup_decay_policy(a.lr, s, TotalSteps(a))

\* train, lines 211-214: the learning rate of the optimizer after the adjustment
AdjustedLr(a, s, current) ==
    IF a.lr_decay = "none" THEN current ELSE fn_lr_policy(a, s)

\* the variables of train() and of the workers that the machines below leave alone
trainIdle == <<epoch, patience, batch_counter, it, prev_best_wer, prev_best_epoch_wer,
               e_wer, model, disk, restarts, grads>>

NotTraining ==
    /\ epoch = 0
    /\ patience = 0
    /\ batch_counter = 0
    /\ it = 0
    /\ prev_best_wer = InitialBestWer
    /\ prev_best_epoch_wer = InitialBestWer
    /\ e_wer = None
    /\ model = 0
    /\ disk = [d \in Dirs |-> NoFile]
    /\ restarts = 0
    /\ grads = 0

NoWorkers ==
    /\ world = 0
    /\ wpc = [r \in Ranks(0) |-> "train"]
    /\ iargs = NoInferenceArgs
    /\ writers = NoWriters
    /\ rk = NoRanks

\* ------------------------------------------------------------------ main()

\* main, lines 361-364: the two ValueError checks on gradient_accumulation_steps
ValidAccumulation(batch_size, k) == k >= 1 /\ batch_size % k = 0

\* main, lines 436-438 (default sampler, one process): steps per epoch as main computes it
StepPerEpoch(n_examples, batch_size) == CeilDiv(n_examples, batch_size)

\* Length of data_layer.data_iterator (dataset.py): the loader is built with micro-batch
\* size batch_size // gradient_accumulation_steps (main, line 377) and, like the count
\* of line 438, keeps a short last micro-batch.
TrainBatches(n_examples, batch_size, k) == CeilDiv(n_examples, batch_size \div k)

CoordinatorWrites_AnyRank(is_initialized, rank) == TRUE

\* save(), line 78: who writes the checkpoint file
CoordinatorWrites(is_initialized, rank) ==
    (~is_initialized) \/ (is_initialized /\ rank = 0)

\* save(), lines 80-84: the dictionary that is written
save_checkpoint(mdl, opt, ep, save_optimizer) ==
    [epoch |-> ep, state_dict |-> mdl, optimizer |-> IF save_optimizer THEN opt ELSE None]

Save_NoOptimizer(d, is_initialized, rank, mdl, ep, dir, save_optimizer) ==
    IF CoordinatorWrites(is_initialized, rank)
    THEN [d EXCEPT ![dir] = [epoch |-> ep, state_dict |-> mdl, optimizer |-> None]]
    ELSE d

\* save(), lines 72-86, called by the process of rank `rank`: the content of the
\* checkpoint files afterwards.  In the training machine one number, the count of
\* optimizer.step() calls, stands for the model's and for the optimizer's state.
Save(d, is_initialized, rank, mdl, ep, dir, save_optimizer) ==
    IF CoordinatorWrites(is_initialized, rank)
    THEN [d EXCEPT ![dir] = save_checkpoint(mdl, mdl, ep, save_optimizer)]
    ELSE d

\* directory that args.output_dir / args.best_dir name (parse_args, lines 529-530)
OutputDir == "output_dir"
BestDir == IF args.same_dir THEN "output_dir" ELSE "best_dir"

\* the arguments of a run (parse_args, lines 506-542) with the two values main() adds
\* (lines 415-419 and 438), the schedule drawn from decays, lrs, epochs and the step
\* budgets 1..steps
ArgsFor(decays, lrs, epochs, steps) ==
    { a \in [ gradient_accumulation_steps : 1..MaxAccum,
              batch_size : 1..MaxAccum,
              n_examples : 0..MaxExamples,
              num_batches : 0..(MaxExamples * MaxAccum),
              eval_frequency : 1..MaxNumSteps,
              save_after_each_epoch : BOOLEAN,
              num_steps : {None} \cup (1..steps),
              num_epochs : epochs,
              early_stop_patience : 1..MaxPatience,
              fp16 : BOOLEAN,
              same_dir : BOOLEAN,
              lr_decay : decays,
              lr : lrs,
              start_epoch : {0},
              step_per_epoch : 0..MaxExamples ] :
        /\ ValidAccumulation(a.batch_size, a.gradient_accumulation_steps)
        /\ a.num_batches = TrainBatches(a.n_examples, a.batch_size,
                                        a.gradient_accumulation_steps)
        /\ a.step_per_epoch = StepPerEpoch(a.n_examples, a.batch_size) }

\* runs without a learning-rate policy (--lr_decay none, the default of line 526)
ArgSpace == ArgsFor({"none"}, {MaxLr}, 1..MaxNumEpochs, MaxNumSteps)

H0 == [ micro |-> 0,          \* micro-batches processed in this run
        opt |-> 0,            \* optimizer.step() calls in this run
        epoch_micro |-> 0,    \* micro-batches processed in this epoch
        epoch_opt |-> 0,      \* optimizer.step() calls in this epoch
        evals |-> 0,          \* eval() calls inside the loop in this run
        epoch_evals |-> 0,    \* eval() calls inside the loop in this epoch
        final_evals |-> 0,    \* eval() calls after the loop
        min_interval |-> InitialBestWer,   \* min of metrics compared with prev_best_wer
        min_epoch |-> InitialBestWer,      \* min of metrics compared with prev_best_epoch_wer
        last |-> "start",     \* the last step taken
        late_opt |-> FALSE,   \* an optimizer step was taken with step >= num_steps
        written_step |-> [d \in Dirs |-> 0],  \* step counter when <dir>/Jasper.pt was written
        resumed_from |-> None,              \* on a resumed run: written_step of the checkpoint
        lr_step |-> None,     \* the step the learning-rate policy last returned a value for
        cleared |-> FALSE,    \* the last micro-batch called optimizer.zero_grad()
        best_wer |-> None ]   \* the metric that <best_dir>/Jasper.pt was last written for

\* train(), lines 180-191, after main() with args.ckpt is None (lines 418-419)
Init ==
    /\ args \in ArgSpace
    /\ pc = "epoch_head"
    /\ outcome = "RUNNING"
    /\ epoch = args.start_epoch
    /\ step = epoch * args.step_per_epoch
    /\ patience = 0
    /\ batch_counter = 0
    /\ it = 0
    /\ prev_best_wer = InitialBestWer
    /\ prev_best_epoch_wer = InitialBestWer
    /\ e_wer = None
    /\ model = 0
    /\ disk = [d \in Dirs |-> NoFile]
    /\ restarts = 0
    /\ h = H0
    /\ world = 0
    /\ wpc = [r \in Ranks(0) |-> "train"]
    /\ iargs = NoInferenceArgs
    /\ writers = NoWriters
    /\ lr = Rat(args.lr, 1)
    /\ grads = 0
    /\ setup = NoSetup
    /\ rk = NoRanks
    /\ draw = NoDraw

\* ----------------------------------------------------------------- train()

\* lines 193-199: head of the while loop
EpochHead ==
    /\ pc = "epoch_head"
    /\ batch_counter' = 0
    /\ it' = 0
    /\ pc' = "loop"
    /\ h' = [h EXCEPT !.epoch_micro = 0, !.epoch_opt = 0, !.epoch_evals = 0,
                      !.last = "epoch_head"]
    /\ UNCHANGED <<args, outcome, epoch, step, patience, prev_best_wer,
                   prev_best_epoch_wer, e_wer, model, disk, restarts>>
    /\ UNCHANGED <<workers, setup, rk, draw, lr, grads>>

AccumulationComplete_EveryBatch(bc, a) == bc >= 1

\* line 253: the accumulation window is complete
AccumulationComplete(bc, a) == bc % a.gradient_accumulation_steps = 0

\* lines 280 and 283: the step budget is configured and reached
BudgetReached(s, a) == a.num_steps # None /\ s >= a.num_steps

\* line 311: the epoch budget applies and is reached
EpochsDone(e, a) == a.num_steps = None /\ e >= a.num_epochs

Improves_OrEqual(w, best) == w <= best

\* lines 271 and 297: the metric improves on the recorded best
Improves(w, best) == w < best

EarlyStop_Late(p, a) == p > a.early_stop_patience

\* line 304: patience is used up
EarlyStop(p, a) == p >= a.early_stop_patience

\* lines 141-143: with optim_level = 1 (line 334) eval() reads the name amp, which the
\* file never binds, in its first batch
EvalRaises(a) == a.fp16

\* main, lines 333-336: the AMP optimization level handed to train()
OptimLevel(a) == IF a.fp16 THEN 1 ELSE 0

\* lines 243-248: whether backward() is called at this optimization level
BackwardRuns(optim_level) == ~(optim_level >= 0 /\ optim_level <= 3)

WindowHead_EveryBatch(bc) == TRUE

\* line 209: the micro-batch is the first of an accumulation window
WindowHead(bc) == bc = 0

\* lines 200-253: one micro-batch up to the accumulation test.  At the head of a
\* window (line 209) the policy sets the learning rate, where its division by a zero
\* horizon raises, and the gradients are cleared.  With optim_level = 1 lines 221-228
\* read t_processed_signal_t before any assignment.
TrainMicroBatch ==
    /\ pc = "loop"
    /\ it < args.num_batches
    /\ it' = it + 1
    /\ LET head == WindowHead(batch_counter)
           new_lr == IF head THEN AdjustedLr(args, step, lr) ELSE lr
       IN  IF new_lr = DivByZero
           THEN /\ pc' = "crashed"
                /\ outcome' = "ZeroDivisionError"
                /\ UNCHANGED <<batch_counter, lr, grads>>
                /\ h' = [h EXCEPT !.last = "raise"]
           ELSE /\ lr' = new_lr
                /\ IF OptimLevel(args) = 1
                   THEN /\ pc' = "crashed"
                        /\ outcome' = "UnboundLocalError"
                        /\ grads' = IF head THEN 0 ELSE grads
                        /\ UNCHANGED <<batch_counter>>
                        /\ h' = [h EXCEPT !.last = "raise", !.cleared = head,
                                          !.lr_step = IF head /\ args.lr_decay # "none"
                                                      THEN step ELSE @]
                   ELSE /\ batch_counter' = batch_counter + 1
                        /\ grads' = (IF head THEN 0 ELSE grads)
                                      + (IF BackwardRuns(OptimLevel(args)) THEN 1 ELSE 0)
                        /\ pc' = IF AccumulationComplete(batch_counter + 1, args)
                                 THEN "optimizer_step" ELSE "loop"
                        /\ h' = [h EXCEPT !.micro = @ + 1, !.epoch_micro = @ + 1,
                                          !.last = "micro_batch", !.cleared = head,
                                          !.lr_step = IF head /\ args.lr_decay # "none"
                                                      THEN step ELSE @]
                        /\ UNCHANGED outcome
    /\ UNCHANGED <<args, epoch, step, patience, prev_best_wer,
                   prev_best_epoch_wer, e_wer, model, disk, restarts>>
    /\ UNCHANGED <<workers, setup, rk, draw>>

EvalDue_AnyMode(s, a) ==
    s > 0 /\ s % a.eval_frequency = 0

\* line 265-266: is an interval evaluation due after this optimizer step
EvalDue(s, a) ==
    s > 0 /\ s % a.eval_frequency = 0 /\ a.save_after_each_epoch = FALSE

\* lines 254-266: optimizer.step() and the test for the interval evaluation
OptimizerStep ==
    /\ pc = "optimizer_step"
    /\ model' = model + 1
    /\ pc' = IF EvalDue(step, args) THEN "interval_eval" ELSE "step_inc"
    /\ h' = [h EXCEPT !.opt = @ + 1, !.epoch_opt = @ + 1, !.last = "optimizer_step",
                      !.late_opt = @ \/ BudgetReached(step, args)]
    /\ UNCHANGED <<args, outcome, epoch, step, patience, batch_counter, it,
                   prev_best_wer, prev_best_epoch_wer, e_wer, disk, restarts>>
    /\ UNCHANGED <<workers, setup, rk, draw, lr, grads>>

\* lines 267-276: eval(), then the 'best' checkpoint on improvement
IntervalEval ==
    /\ pc = "interval_eval"
    /\ ~EvalRaises(args)
    /\ \E w \in 0..MaxWer :
        /\ e_wer' = w
        /\ IF Improves(w, prev_best_wer)
           THEN /\ prev_best_wer' = w
                /\ disk' = Save(disk, FALSE, 0, model, epoch, BestDir, FALSE)
                /\ h' = [h EXCEPT !.evals = @ + 1, !.epoch_evals = @ + 1,
                                  !.last = "save_best", !.best_wer = w,
                                  !.min_interval = Min(@, w),
                                  !.written_step[BestDir] = step]
           ELSE /\ UNCHANGED <<prev_best_wer, disk>>
                /\ h' = [h EXCEPT !.evals = @ + 1, !.epoch_evals = @ + 1,
                                  !.last = "interval_eval",
                                  !.min_interval = Min(@, w)]
    /\ pc' = "step_inc"
    /\ UNCHANGED <<args, outcome, epoch, step, patience, batch_counter, it,
                   prev_best_epoch_wer, model, restarts>>
    /\ UNCHANGED <<workers, setup, rk, draw, lr, grads>>

\* lines 277-281: the step counter and the step budget inside the micro-batch loop
StepInc ==
    /\ pc = "step_inc"
    /\ step' = step + 1
    /\ batch_counter' = 0
    /\ pc' = IF BudgetReached(step + 1, args) THEN "after_loop" ELSE "loop"
    /\ h' = [h EXCEPT !.last = "step_inc"]
    /\ UNCHANGED <<args, outcome, epoch, patience, it, prev_best_wer,
                   prev_best_epoch_wer, e_wer, model, disk, restarts>>
    /\ UNCHANGED <<workers, setup, rk, draw, lr, grads>>

\* line 200: train_dataloader is exhausted
LoopExhausted ==
    /\ pc = "loop"
    /\ it >= args.num_batches
    /\ pc' = "after_loop"
    /\ h' = [h EXCEPT !.last = "loop_exhausted"]
    /\ UNCHANGED <<args, outcome, epoch, step, patience, batch_counter, it,
                   prev_best_wer, prev_best_epoch_wer, e_wer, model, disk, restarts>>
    /\ UNCHANGED <<workers, setup, rk, draw, lr, grads>>

\* lines 283-286: the step budget after the micro-batch loop, else epoch += 1
AfterLoop ==
    /\ pc = "after_loop"
    /\ IF BudgetReached(step, args)
       THEN /\ pc' = "final_eval"
            /\ outcome' = "STEP_BUDGET"
            /\ UNCHANGED epoch
       ELSE /\ epoch < MaxEpochRun
            /\ epoch' = epoch + 1
            /\ pc' = "save_latest"
            /\ UNCHANGED outcome
    /\ h' = [h EXCEPT !.last = "after_loop"]
    /\ UNCHANGED <<args, step, patience, batch_counter, it, prev_best_wer,
                   prev_best_epoch_wer, e_wer, model, disk, restarts>>
    /\ UNCHANGED <<workers, setup, rk, draw, lr, grads>>

\* line 287: the 'latest' checkpoint
SaveLatest ==
    /\ pc = "save_latest"
    /\ disk' = Save(disk, FALSE, 0, model, epoch, OutputDir, TRUE)
    /\ pc' = IF args.save_after_each_epoch THEN "epoch_eval" ELSE "patience_check"
    /\ h' = [h EXCEPT !.last = "save_latest", !.written_step[OutputDir] = step]
    /\ UNCHANGED <<args, outcome, epoch, step, patience, batch_counter, it,
                   prev_best_wer, prev_best_epoch_wer, e_wer, model, restarts>>
    /\ UNCHANGED <<workers, setup, rk, draw, lr, grads>>

\* lines 289-293: the evaluation at the epoch boundary
EpochEval ==
    /\ pc = "epoch_eval"
    /\ ~EvalRaises(args)
    /\ \E w \in 0..MaxWer : e_wer' = w
    /\ pc' = "patience_check"
    /\ h' = [h EXCEPT !.evals = @ + 1, !.epoch_evals = @ + 1, !.last = "epoch_eval"]
    /\ UNCHANGED <<args, outcome, epoch, step, patience, batch_counter, it,
                   prev_best_wer, prev_best_epoch_wer, model, disk, restarts>>
    /\ UNCHANGED <<workers, setup, rk, draw, lr, grads>>

BestAtEpochEnd_BothModes(a) == TRUE

\* line 299: the epoch-end check writes the 'best' checkpoint only in a run with
\* --save_after_each_epoch
BestAtEpochEnd(a) == a.save_after_each_epoch

\* line 295: the test that resets patience
WithinThreshold(w, best) == w < best + ImprovementThreshold

\* lines 295-312: early stopping and the epoch budget.  Reading e_wer while it is
\* unbound raises UnboundLocalError.
PatienceCheck ==
    /\ pc = "patience_check"
    /\ IF e_wer = None
       THEN /\ pc' = "crashed"
            /\ outcome' = "UnboundLocalError"
            /\ h' = [h EXCEPT !.last = "raise"]
            /\ UNCHANGED <<patience, prev_best_epoch_wer, disk>>
       ELSE IF WithinThreshold(e_wer, prev_best_epoch_wer)
       THEN /\ patience' = 0
            /\ IF Improves(e_wer, prev_best_epoch_wer)
               THEN /\ prev_best_epoch_wer' = e_wer
                    /\ IF BestAtEpochEnd(args)
                       THEN /\ disk' = Save(disk, FALSE, 0, model, epoch, BestDir, FALSE)
                            /\ h' = [h EXCEPT !.last = "save_best",
                                              !.best_wer = e_wer,
                                              !.min_epoch = Min(@, e_wer),
                                              !.written_step[BestDir] = step]
                       ELSE /\ UNCHANGED disk
                            /\ h' = [h EXCEPT !.last = "patience_check",
                                              !.min_epoch = Min(@, e_wer)]
               ELSE /\ UNCHANGED <<prev_best_epoch_wer, disk>>
                    /\ h' = [h EXCEPT !.last = "patience_check",
                                      !.min_epoch = Min(@, e_wer)]
            /\ IF EpochsDone(epoch, args)
               THEN pc' = "final_eval" /\ outcome' = "DONE"
               ELSE pc' = "epoch_head" /\ UNCHANGED outcome
       ELSE /\ patience' = patience + 1
            /\ h' = [h EXCEPT !.last = "patience_check", !.min_epoch = Min(@, e_wer)]
            /\ UNCHANGED <<prev_best_epoch_wer, disk>>
            /\ IF EarlyStop(patience + 1, args)
               THEN IF patience + 1 = args.early_stop_patience
                    THEN pc' = "final_eval" /\ outcome' = "EARLY_STOPPED"
                    ELSE pc' = "crashed" /\ outcome' = "AssertionError"
               ELSE IF EpochsDone(epoch, args)
                    THEN pc' = "final_eval" /\ outcome' = "DONE"
                    ELSE pc' = "epoch_head" /\ UNCHANGED outcome
    /\ UNCHANGED <<args, epoch, step, batch_counter, it, prev_best_wer, e_wer,
                   model, restarts>>
    /\ UNCHANGED <<workers, setup, rk, draw, lr, grads>>

FinalEval_KeepsResult ==
    /\ pc = "final_eval"
    /\ ~EvalRaises(args)
    /\ pc' = "done"
    /\ \E w \in 0..MaxWer : /\ e_wer' = w
                             /\ prev_best_wer' = Min(prev_best_wer, w)
    /\ h' = [h EXCEPT !.final_evals = @ + 1, !.last = "final_eval"]
    /\ UNCHANGED <<args, outcome, epoch, step, patience, batch_counter, it,
                   prev_best_epoch_wer, model, disk, restarts>>
    /\ UNCHANGED <<workers, setup, rk, draw, lr, grads>>

\* lines 314-316: the evaluation after the loop; its result is dropped
FinalEval ==
    /\ pc = "final_eval"
    /\ ~EvalRaises(args)
    /\ pc' = "done"
    /\ h' = [h EXCEPT !.final_evals = @ + 1, !.last = "final_eval"]
    /\ UNCHANGED outcome
    /\ UNCHANGED <<args, epoch, step, patience, batch_counter, it, prev_best_wer,
                   prev_best_epoch_wer, e_wer, model, disk, restarts>>
    /\ UNCHANGED <<workers, setup, rk, draw, lr, grads>>

\* eval(), lines 139-143, raising NameError in any of its three call sites
EvalError ==
    /\ pc \in {"interval_eval", "epoch_eval", "final_eval"}
    /\ EvalRaises(args)
    /\ pc' = "crashed"
    /\ outcome' = "NameError"
    /\ h' = [h EXCEPT !.last = "raise"]
    /\ UNCHANGED <<args, epoch, step, patience, batch_counter, it, prev_best_wer,
                   prev_best_epoch_wer, e_wer, model, disk, restarts>>
    /\ UNCHANGED <<workers, setup, rk, draw, lr, grads>>

\* The process is killed (at any point) and started again with --ckpt
\* <output_dir>/Jasper.pt --resume_from_ckpt: main, lines 404-415, then train,
\* lines 180-191.
Restart ==
    /\ restarts < MaxRestarts
    /\ disk[OutputDir] # NoFile
    /\ restarts' = restarts + 1
    /\ args' = [args EXCEPT !.start_epoch = disk[OutputDir].epoch]
    /\ model' = disk[OutputDir].state_dict
    /\ epoch' = disk[OutputDir].epoch
    /\ step' = disk[OutputDir].epoch * args.step_per_epoch
    /\ patience' = 0
    /\ prev_best_wer' = InitialBestWer
    /\ prev_best_epoch_wer' = InitialBestWer
    /\ e_wer' = None
    /\ batch_counter' = 0
    /\ it' = 0
    /\ pc' = "epoch_head"
    /\ outcome' = "RUNNING"
    /\ h' = [H0 EXCEPT !.written_step = h.written_step,
                       !.best_wer = h.best_wer,
                       !.resumed_from = h.written_step[OutputDir],
                       !.last = "restart"]
    /\ lr' = Rat(args.lr, 1)
    /\ grads' = 0
    /\ UNCHANGED disk
    /\ UNCHANGED <<workers, setup, rk, draw>>

Next ==
    \/ EpochHead
    \/ TrainMicroBatch
    \/ OptimizerStep
    \/ IntervalEval
    \/ StepInc
    \/ LoopExhausted
    \/ AfterLoop
    \/ SaveLatest
    \/ EpochEval
    \/ PatienceCheck
    \/ FinalEval
    \/ EvalError
    \/ Restart

Spec == Init /\ [][Next]_vars

\* ------------------------------------------------ runs with a learning-rate policy
\* main, lines 447-450, with --lr_decay decay or warmup; --num_epochs may be 0
ScheduleArgs ==
    { a \in ArgsFor({"decay", "warmup"}, {MaxLr}, 0..MaxNumEpochs, MaxNumSteps + 1) :
        /\ ~a.same_dir
        /\ a.early_stop_patience = MaxPatience
        /\ a.eval_frequency = 1 }

InitSchedule ==
    /\ args \in ScheduleArgs
    /\ pc = "epoch_head"
    /\ outcome = "RUNNING"
    /\ epoch = args.start_epoch
    /\ step = epoch * args.step_per_epoch
    /\ lr = Rat(args.lr, 1)
    /\ h = H0
    /\ NotTraining
    /\ NoWorkers
    /\ setup = NoSetup
    /\ draw = NoDraw

SpecSchedule == InitSchedule /\ [][Next]_vars

\* ------------------------------------- runs with any --early_stop_patience
\* parse_args, line 535: --early_stop_patience is an int without a range check
PatienceValues == (-1)..MaxPatience

PatienceArgs ==
    { [a EXCEPT !.early_stop_patience = p] :
        a \in {b \in ArgSpace : ~b.same_dir /\ b.early_stop_patience = 1},
        p \in PatienceValues }

InitPatience ==
    /\ args \in PatienceArgs
    /\ pc = "epoch_head"
    /\ outcome = "RUNNING"
    /\ epoch = args.start_epoch
    /\ step = epoch * args.step_per_epoch
    /\ lr = Rat(args.lr, 1)
    /\ h = H0
    /\ NotTraining
    /\ NoWorkers
    /\ setup = NoSetup
    /\ draw = NoDraw

SpecPatience == InitPatience /\ [][Next]_vars

\* ------------------------------------------- the workers of a distributed run
\* Every rank runs train() (or the inference driver) itself and calls save() at the
\* same boundaries; the merged metric e_wer is the same on all ranks.

\* inference.py, eval(), line 127: who writes the output files
InferenceWrites(multi_gpu, rank) == (~multi_gpu) \/ (multi_gpu /\ rank = 0)

RunArgs ==
    { a \in ArgSpace : /\ a.n_examples = 0 /\ a.batch_size = 1
                       /\ a.num_steps = None /\ a.num_epochs = MaxNumEpochs
                       /\ a.eval_frequency = 1 /\ a.early_stop_patience = MaxPatience
                       /\ a.save_after_each_epoch /\ ~a.fp16 }

InitWorkers ==
    /\ args \in RunArgs
    /\ pc \in {"train_workers", "inference_workers"}
    /\ outcome = "RUNNING"
    /\ epoch = 1
    /\ step = 0
    /\ patience = 0
    /\ batch_counter = 0
    /\ it = 0
    /\ prev_best_wer = InitialBestWer
    /\ prev_best_epoch_wer = InitialBestWer
    /\ e_wer \in 0..MaxWer
    /\ model = 0
    /\ disk = [d \in Dirs |-> NoFile]
    /\ restarts = 0
    /\ h = H0
    /\ world \in 0..MaxWorld
    /\ wpc = [r \in Ranks(world) |->
                 IF pc = "train_workers" THEN "latest_call" ELSE "calc_wer"]
    /\ iargs \in [InferenceFiles -> BOOLEAN]
    /\ pc = "train_workers" => iargs = NoInferenceArgs
    /\ writers = NoWriters
    /\ lr = Rat(args.lr, 1)
    /\ grads = 0
    /\ setup = NoSetup
    /\ rk = NoRanks
    /\ draw = NoDraw

trainState == <<args, pc, outcome, step, patience, batch_counter, it,
                prev_best_wer, restarts, h, world, iargs, lr, grads, setup, rk, draw>>

\* save(), lines 72-77: every rank creates the directory (exist_ok) and logs
WorkerMakedirs(r) ==
    /\ pc = "train_workers"
    /\ wpc[r] \in {"latest_call", "best_call"}
    /\ wpc' = [wpc EXCEPT ![r] = IF @ = "latest_call" THEN "latest_write"
                                                      ELSE "best_write"]
    /\ UNCHANGED <<trainState, epoch, model, e_wer, prev_best_epoch_wer, disk, writers>>

\* train(), line 287 with save(), lines 78-86, on rank r; then lines 295-300
WorkerSaveLatest(r) ==
    /\ pc = "train_workers"
    /\ wpc[r] = "latest_write"
    /\ disk' = Save(disk, world # 0, r, model, epoch, OutputDir, TRUE)
    /\ writers' = IF CoordinatorWrites(world # 0, r)
                  THEN [writers EXCEPT ![OutputDir] = @ \cup {r}] ELSE writers
    /\ wpc' = [wpc EXCEPT ![r] = IF Improves(e_wer, prev_best_epoch_wer)
                                 THEN "best_call" ELSE "end"]
    /\ UNCHANGED <<trainState, epoch, model, e_wer, prev_best_epoch_wer>>

\* train(), line 300 with save(), lines 78-86, on rank r
WorkerSaveBest(r) ==
    /\ pc = "train_workers"
    /\ wpc[r] = "best_write"
    /\ disk' = Save(disk, world # 0, r, model, epoch, BestDir, FALSE)
    /\ writers' = IF CoordinatorWrites(world # 0, r)
                  THEN [writers EXCEPT ![BestDir] = @ \cup {r}] ELSE writers
    /\ wpc' = [wpc EXCEPT ![r] = "end"]
    /\ UNCHANGED <<trainState, epoch, model, e_wer, prev_best_epoch_wer>>

\* the next epoch of all ranks, up to its end: lines 193-293
WorkersNextEpoch ==
    /\ pc = "train_workers"
    /\ \A r \in Ranks(world) : wpc[r] = "end"
    /\ epoch < MaxEpochRun
    /\ epoch' = epoch + 1
    /\ model' = model + 1
    /\ prev_best_epoch_wer' = Min(prev_best_epoch_wer, e_wer)
    /\ \E w \in 0..MaxWer : e_wer' = w
    /\ wpc' = [r \in Ranks(world) |-> "latest_call"]
    /\ UNCHANGED <<trainState, disk, writers>>

\* inference.py, eval(), lines 125-144, on rank r
InferenceWrite(r) ==
    /\ pc = "inference_workers"
    /\ wpc[r] = "calc_wer"
    /\ wpc' = [wpc EXCEPT ![r] = "end"]
    /\ writers' = IF InferenceWrites(world # 0, r)
                  THEN [f \in DOMAIN writers |->
                          IF f \in InferenceFiles /\ iargs[f]
                          THEN writers[f] \cup {r} ELSE writers[f]]
                  ELSE writers
    /\ UNCHANGED <<trainState, epoch, model, e_wer, prev_best_epoch_wer, disk>>

NextWorkers ==
    \/ \E r \in Ranks(world) : WorkerMakedirs(r)
    \/ \E r \in Ranks(world) : WorkerSaveLatest(r)
    \/ \E r \in Ranks(world) : WorkerSaveBest(r)
    \/ WorkersNextEpoch
    \/ \E r \in Ranks(world) : InferenceWrite(r)

SpecWorkers == InitWorkers /\ [][NextWorkers]_vars

\* ------------------------------------------- train() on every rank of a group
\* Every rank runs train() on its own local variables.  The ranks meet in eval(),
\* whose aggregation "across all workers" (line 165) returns when every rank has
\* entered the same evaluation; everything else is local to a rank.  A rank is
\* followed from one boundary to the next: an evaluation (lines 268, 291, 316), the
\* 'latest' checkpoint (line 287) and the early-stopping check (lines 295-312).

\* the local variables of train() on rank r at the start (lines 180-191), with the
\* boundaries the rank has come to so far
LocalStart(a, r) ==
    [ rank |-> r, pc |-> "epoch_head", outcome |-> "RUNNING",
      epoch |-> a.start_epoch, step |-> a.start_epoch * a.step_per_epoch,
      patience |-> 0, batch_counter |-> 0, it |-> 0,
      prev_best_wer |-> InitialBestWer, prev_best_epoch_wer |-> InitialBestWer,
      e_wer |-> None, model |-> 0, log |-> <<>> ]

BoundaryPc == {"interval_eval", "epoch_eval", "final_eval", "save_latest",
               "patience_check"}
EvalPc == {"interval_eval", "epoch_eval", "final_eval"}
FinalPc == {"done", "crashed", "capped"}

\* lines 193-286 on one rank: the step that EpochHead, TrainMicroBatch, OptimizerStep,
\* StepInc, LoopExhausted and AfterLoop take, on the rank's local variables
LocalStep(a, s) ==
    CASE s.pc = "epoch_head" ->
            [s EXCEPT !.batch_counter = 0, !.it = 0, !.pc = "loop"]
      [] s.pc = "loop" /\ s.it < a.num_batches /\ OptimLevel(a) = 1 ->
            [s EXCEPT !.it = @ + 1, !.pc = "crashed", !.outcome = "UnboundLocalError"]
      [] s.pc = "loop" /\ s.it < a.num_batches /\ OptimLevel(a) # 1 ->
            [s EXCEPT !.it = @ + 1, !.batch_counter = @ + 1,
                      !.pc = IF AccumulationComplete(s.batch_counter + 1, a)
                             THEN "optimizer_step" ELSE "loop"]
      [] s.pc = "loop" /\ s.it >= a.num_batches ->
            [s EXCEPT !.pc = "after_loop"]
      [] s.pc = "optimizer_step" ->
            [s EXCEPT !.model = @ + 1,
                      !.pc = IF EvalDue(s.step, a) THEN "interval_eval" ELSE "step_inc"]
      [] s.pc = "step_inc" ->
            [s EXCEPT !.step = @ + 1, !.batch_counter = 0,
                      !.pc = IF BudgetReached(s.step + 1, a) THEN "after_loop" ELSE "loop"]
      [] s.pc = "after_loop" /\ BudgetReached(s.step, a) ->
            [s EXCEPT !.pc = "final_eval", !.outcome = "STEP_BUDGET"]
      [] s.pc = "after_loop" /\ ~BudgetReached(s.step, a) /\ s.epoch < MaxEpochRun ->
            [s EXCEPT !.epoch = @ + 1, !.pc = "save_latest"]
      [] OTHER -> [s EXCEPT !.pc = "capped"]

\* the rank has come to a boundary: what it holds there
Logged(s) ==
    [s EXCEPT !.log = Append(@, <<s.pc, s.epoch, s.step, s.patience,
                                  s.prev_best_wer, s.prev_best_epoch_wer>>)]

RECURSIVE RunToBoundary(_, _)
RunToBoundary(a, s) ==
    IF s.pc \in BoundaryPc THEN Logged(s)
    ELSE IF s.pc \in FinalPc THEN s
    ELSE RunToBoundary(a, LocalStep(a, s))

EvalResult_PerWorker(s, w) == w + s.rank

\* lines 165-175: the metric eval() returns on a rank, w being the aggregate over all
\* workers
EvalResult(s, w) == w

\* lines 268-276, 291-293 and 316 on one rank, after eval() has returned
AfterEval(a, s, w) ==
    CASE s.pc = "interval_eval" ->
            [s EXCEPT !.e_wer = EvalResult(s, w),
                      !.prev_best_wer = IF Improves(EvalResult(s, w), @)
                                        THEN EvalResult(s, w) ELSE @,
                      !.pc = "step_inc"]
      [] s.pc = "epoch_eval" ->
            [s EXCEPT !.e_wer = EvalResult(s, w), !.pc = "patience_check"]
      [] OTHER -> [s EXCEPT !.pc = "done"]

\* lines 295-312 on one rank: the step PatienceCheck takes
AfterPatience(a, s) ==
    IF s.e_wer = None
    THEN [s EXCEPT !.pc = "crashed", !.outcome = "UnboundLocalError"]
    ELSE IF WithinThreshold(s.e_wer, s.prev_best_epoch_wer)
    THEN [s EXCEPT !.patience = 0,
                   !.prev_best_epoch_wer = IF Improves(s.e_wer, @) THEN s.e_wer ELSE @,
                   !.pc = IF EpochsDone(s.epoch, a) THEN "final_eval" ELSE "epoch_head",
                   !.outcome = IF EpochsDone(s.epoch, a) THEN "DONE" ELSE @]
    ELSE IF EarlyStop(s.patience + 1, a)
    THEN [s EXCEPT !.patience = @ + 1,
                   !.pc = IF s.patience + 1 = a.early_stop_patience
                          THEN "final_eval" ELSE "crashed",
                   !.outcome = IF s.patience + 1 = a.early_stop_patience
                               THEN "EARLY_STOPPED" ELSE "AssertionError"]
    ELSE [s EXCEPT !.patience = @ + 1,
                   !.pc = IF EpochsDone(s.epoch, a) THEN "final_eval" ELSE "epoch_head",
                   !.outcome = IF EpochsDone(s.epoch, a) THEN "DONE" ELSE @]

\* the command lines of the group: every rank gets args.num_batches micro-batches per
\* epoch
LockstepArgs ==
    { a \in ArgSpace : /\ ~a.same_dir
                       /\ a.batch_size = a.gradient_accumulation_steps
                       /\ a.n_examples \in {0, MaxExamples}
                       /\ a.num_epochs = MaxNumEpochs
                       /\ a.num_steps \in {None, MaxNumSteps}
                       /\ a.early_stop_patience = MaxPatience }

lockstepIdle == <<args, pc, outcome, step, lr, h, epoch, patience, batch_counter, it,
                  prev_best_wer, prev_best_epoch_wer, e_wer, model, restarts, grads,
                  world, wpc, iargs, writers, setup, draw>>

InitLockstep ==
    /\ args \in LockstepArgs
    /\ world \in 2..MaxGroup
    /\ rk = [r \in Ranks(world) |-> RunToBoundary(args, LocalStart(args, r))]
    /\ pc = "lockstep"
    /\ outcome = "RUNNING"
    /\ step = 0
    /\ lr = Rat(args.lr, 1)
    /\ h = H0
    /\ NotTraining
    /\ wpc = [r \in Ranks(world) |-> "train"]
    /\ iargs = NoInferenceArgs
    /\ writers = NoWriters
    /\ setup = NoSetup
    /\ draw = NoDraw

\* line 287 on rank r, then on to its next boundary
RankSaveLatest(r) ==
    /\ rk[r].pc = "save_latest"
    /\ disk' = Save(disk, TRUE, r, rk[r].model, rk[r].epoch, OutputDir, TRUE)
    /\ rk' = [rk EXCEPT ![r] =
                 RunToBoundary(args, [@ EXCEPT !.pc = IF args.save_after_each_epoch
                                                      THEN "epoch_eval"
                                                      ELSE "patience_check"])]
    /\ UNCHANGED lockstepIdle

\* lines 295-312 on rank r (with the 'best' checkpoint of line 300), then on to its
\* next boundary
RankPatienceCheck(r) ==
    /\ rk[r].pc = "patience_check"
    /\ disk' = IF /\ rk[r].e_wer # None
                  /\ Improves(rk[r].e_wer, rk[r].prev_best_epoch_wer)
                  /\ BestAtEpochEnd(args)
               THEN Save(disk, TRUE, r, rk[r].model, rk[r].epoch, BestDir, FALSE)
               ELSE disk
    /\ rk' = [rk EXCEPT ![r] = RunToBoundary(args, AfterPatience(args, @))]
    /\ UNCHANGED lockstepIdle

\* eval() returns on every rank, all of them having entered it (with the 'best'
\* checkpoint of line 274 where the metric improves); each rank goes on to its next
\* boundary
EvalMerge ==
    /\ \A r \in Ranks(world) : rk[r].pc \in EvalPc
    /\ ~EvalRaises(args)
    /\ \E w \in 0..MaxWer :
        /\ disk' = IF /\ rk[0].pc = "interval_eval"
                      /\ Improves(EvalResult(rk[0], w), rk[0].prev_best_wer)
                   THEN Save(disk, TRUE, 0, rk[0].model, rk[0].epoch, BestDir, FALSE)
                   ELSE disk
        /\ rk' = [r \in Ranks(world) |->
                     RunToBoundary(args, AfterEval(args, rk[r], w))]
    /\ UNCHANGED lockstepIdle

\* eval() raises on rank r (lines 141-143) before it reaches the aggregation
RankEvalError(r) ==
    /\ rk[r].pc \in EvalPc
    /\ EvalRaises(args)
    /\ rk' = [rk EXCEPT ![r] = [@ EXCEPT !.pc = "crashed", !.outcome = "NameError"]]
    /\ UNCHANGED <<disk, lockstepIdle>>

NextLockstep ==
    \/ \E r \in Ranks(world) : RankSaveLatest(r)
    \/ \E r \in Ranks(world) : RankPatienceCheck(r)
    \/ EvalMerge
    \/ \E r \in Ranks(world) : RankEvalError(r)

SpecLockstep == InitLockstep /\ [][NextLockstep]_vars

\* ------------------------------------------------ an evaluation pass and its WER
\* An evaluation pass pulls the batches of the evaluation set, hands every batch to
\* process_evaluation_batch, which appends the decoded predictions and references to
\* _global_var_dict, and ends with process_evaluation_epoch.  Words are strings, an
\* utterance is a sequence of words, a batch a sequence of <<reference, prediction>>.

MaxWords == 2          \* an utterance has up to MaxWords words

Vocabulary == {"a", "b"}

Utterances == UNION { [1..n -> Vocabulary] : n \in 0..MaxWords }

Pairs == { <<r, p>> : r \in Utterances \ {<<>>}, p \in Utterances }

\* the two-utterance batch of references "a b c", "d e" and predictions "a b c", "d f"
ExampleBatch == << << <<"a", "b", "c">>, <<"a", "b", "c">> >>,
                   << <<"d", "e">>, <<"d", "f">> >> >>

\* evaluation sets of one or two utterances, in one batch or two
EvalSets ==
    { << <<x>> >> : x \in Pairs }
      \cup { << <<x>>, <<y>> >> : x \in Pairs, y \in Pairs }
      \cup { << <<x, y>> >> : x \in Pairs, y \in Pairs }
      \cup { <<ExampleBatch>> }

Min3(a, b, c) == Min(a, Min(b, c))

\* the word-level edit distance between the first i words of hyp and the first j of ref
RECURSIVE Levenshtein(_, _, _, _)
Levenshtein(hyp, ref, i, j) ==
    IF i = 0 THEN j
    ELSE IF j = 0 THEN i
    ELSE Min3(Levenshtein(hyp, ref, i - 1, j) + 1,
              Levenshtein(hyp, ref, i, j - 1) + 1,
              Levenshtein(hyp, ref, i - 1, j - 1)
                + (IF hyp[i] = ref[j] THEN 0 ELSE 1))

EditDistance(hyp, ref) == Levenshtein(hyp, ref, Len(hyp), Len(ref))

\* the errors and the reference words of the first n accumulated pairs
RECURSIVE TotalErrorsTo(_, _)
TotalErrorsTo(pairs, n) ==
    IF n = 0 THEN 0
    ELSE TotalErrorsTo(pairs, n - 1) + EditDistance(pairs[n][2], pairs[n][1])

RECURSIVE TotalWordsTo(_, _)
TotalWordsTo(pairs, n) ==
    IF n = 0 THEN 0 ELSE TotalWordsTo(pairs, n - 1) + Len(pairs[n][1])

TotalErrors(pairs) == TotalErrorsTo(pairs, Len(pairs))
TotalWords(pairs) == TotalWordsTo(pairs, Len(pairs))

\* process_evaluation_batch: the pairs of the batch are appended to the accumulated
\* predictions and transcripts
process_evaluation_batch(gvd, batch) == gvd \o batch

\* process_evaluation_epoch: the WER over everything accumulated, as a ratio
process_evaluation_epoch(gvd) == Rat(TotalErrors(gvd), TotalWords(gvd))

calc_wer_Fraction(w) == w

\* inference.py, lines 98-103: calc_wer returns the WER times 100
calc_wer(w) == Rat(100 * w.n, w.d)

\* finetune.py, lines 166-175: eval returns the WER as process_evaluation_epoch gives it
eval_wer(w) == w

\* inference.py, line 94: the pass stops after args.steps batches
StepsReached(n, steps) == steps # None /\ n >= steps

WerDraws ==
    [ pass : {"eval", "calc_wer"}, batches : EvalSets, steps : {None, 1},
      n : {0}, gvd : {<<>>}, reported : {None} ]

werIdle == <<args, outcome, step, lr, h, epoch, patience, batch_counter, it,
             prev_best_wer, prev_best_epoch_wer, e_wer, model, disk, restarts, grads,
             workers, setup, rk>>

InitWer ==
    /\ draw \in { d \in WerDraws : d.pass = "eval" => d.steps = None }
    /\ pc = "eval_loop"
    /\ args = <<>>
    /\ outcome = "RUNNING"
    /\ step = 0
    /\ lr = Rat(MaxLr, 1)
    /\ h = H0
    /\ NotTraining
    /\ NoWorkers
    /\ setup = NoSetup
    /\ rk = NoRanks

\* finetune.py, lines 130-163, and inference.py, lines 72-95: one batch of the pass
EvalBatch ==
    /\ pc = "eval_loop"
    /\ draw.n < Len(draw.batches)
    /\ draw' = [draw EXCEPT !.n = @ + 1,
                            !.gvd = process_evaluation_batch(@, draw.batches[draw.n + 1])]
    /\ pc' = IF \/ draw.n + 1 >= Len(draw.batches)
                \/ draw.pass = "calc_wer" /\ StepsReached(draw.n + 1, draw.steps)
             THEN "eval_epoch" ELSE "eval_loop"
    /\ UNCHANGED werIdle

\* finetune.py, lines 165-175, and inference.py, lines 97-103: the WER of the pass
EvalEpoch ==
    /\ pc = "eval_epoch"
    /\ draw' = [draw EXCEPT !.reported =
                   IF draw.pass = "eval"
                   THEN eval_wer(process_evaluation_epoch(draw.gvd))
                   ELSE calc_wer(process_evaluation_epoch(draw.gvd))]
    /\ pc' = "eval_done"
    /\ UNCHANGED werIdle

NextWer ==
    \/ EvalBatch
    \/ EvalEpoch

SpecWer == InitWer /\ [][NextWer]_vars

\* ------------------------------------------------------- a run that is not killed
\* train() in one process that is left alone, on the local variables of LocalStart:
\* every statement that can run does run.  The epoch counter is followed up to
\* MaxEpochRun and held there; no exit reads it when --num_steps is given (line 311),
\* and without --num_steps the run ends at num_epochs <= MaxEpochRun.
HeldEpoch(s) ==
    IF s.pc = "after_loop" /\ s.epoch >= MaxEpochRun
    THEN [s EXCEPT !.epoch = MaxEpochRun - 1] ELSE s

runIdle == <<args, pc, outcome, step, lr, h, epoch, patience, batch_counter, it,
             prev_best_wer, prev_best_epoch_wer, e_wer, model, restarts, grads,
             world, wpc, iargs, writers, setup, draw>>

InitRun ==
    /\ args \in ArgSpace
    /\ rk = [r \in Ranks(0) |-> LocalStart(args, r)]
    /\ pc = "run"
    /\ outcome = "RUNNING"
    /\ step = 0
    /\ lr = Rat(args.lr, 1)
    /\ h = H0
    /\ NotTraining
    /\ world = 0
    /\ wpc = [r \in Ranks(0) |-> "train"]
    /\ iargs = NoInferenceArgs
    /\ writers = NoWriters
    /\ setup = NoSetup
    /\ draw = NoDraw

\* lines 193-286: the next statement of the epoch loop or of the micro-batch loop
RunLocal ==
    /\ rk[0].pc \notin BoundaryPc \cup FinalPc
    /\ rk' = [rk EXCEPT ![0] = LocalStep(args, HeldEpoch(@))]
    /\ UNCHANGED <<disk, runIdle>>

\* line 287: the 'latest' checkpoint
RunSaveLatest ==
    /\ rk[0].pc = "save_latest"
    /\ disk' = Save(disk, FALSE, 0, rk[0].model, rk[0].epoch, OutputDir, TRUE)
    /\ rk' = [rk EXCEPT ![0].pc = IF args.save_after_each_epoch
                                  THEN "epoch_eval" ELSE "patience_check"]
    /\ UNCHANGED runIdle

\* lines 268-276, 291-293 and 316: an evaluation that returns
RunEval ==
    /\ rk[0].pc \in EvalPc
    /\ ~EvalRaises(args)
    /\ \E w \in 0..MaxWer :
        /\ disk' = IF /\ rk[0].pc = "interval_eval"
                      /\ Improves(EvalResult(rk[0], w), rk[0].prev_best_wer)
                   THEN Save(disk, FALSE, 0, rk[0].model, rk[0].epoch, BestDir, FALSE)
                   ELSE disk
        /\ rk' = [rk EXCEPT ![0] = AfterEval(args, @, w)]
    /\ UNCHANGED runIdle

\* lines 141-143: an evaluation that raises
RunEvalError ==
    /\ rk[0].pc \in EvalPc
    /\ EvalRaises(args)
    /\ rk' = [rk EXCEPT ![0] = [@ EXCEPT !.pc = "crashed", !.outcome = "NameError"]]
    /\ UNCHANGED <<disk, runIdle>>

\* lines 295-312: early stopping and the epoch budget
RunPatienceCheck ==
    /\ rk[0].pc = "patience_check"
    /\ disk' = IF /\ rk[0].e_wer # None
                  /\ Improves(rk[0].e_wer, rk[0].prev_best_epoch_wer)
                  /\ BestAtEpochEnd(args)
               THEN Save(disk, FALSE, 0, rk[0].model, rk[0].epoch, BestDir, FALSE)
               ELSE disk
    /\ rk' = [rk EXCEPT ![0] = AfterPatience(args, @)]
    /\ UNCHANGED runIdle

NextRun ==
    \/ RunLocal
    \/ RunSaveLatest
    \/ RunEval
    \/ RunEvalError
    \/ RunPatienceCheck

SpecRun == InitRun /\ [][NextRun]_vars /\ WF_vars(NextRun)

\* ------------------------------------------------------- main() up to train()
\* The statements of main() that the ordering of its errors depends on, in the order
\* of the file: the process group (326-329), the two checks of
\* gradient_accumulation_steps (361-364), the data layers and the model (371-398),
\* the checkpoint (404-419), the schedule (436-452), model.to(device) (455), the
\* optimizer (459-473), its state (485-486) and the call of train() (494).

\* --optimizer values main() knows (lines 460, 464, 468)
OptimizerKinds == {"novograd", "adam", "sgd"}

MainArgs ==
    [ local_rank : {None, 0},
      gradient_accumulation_steps : 0..MaxAccum,
      batch_size : 1..MaxAccum,
      n_examples : 0..1,
      optimizer_kind : OptimizerKinds \cup {"lamb"},
      lr_decay : {"none", "decay", "warmup"},
      lr : {MaxLr},
      num_epochs : 0..1,
      ckpt : BOOLEAN ]

\* what main() has done: nothing yet
SetupStart == [ process_group |-> FALSE, data_layers |-> FALSE,
                checkpoint_loaded |-> FALSE, schedule |-> FALSE, on_device |-> FALSE,
                optimizer |-> FALSE, train_called |-> FALSE ]

mainIdle == <<step, lr, trainIdle, wpc, iargs, writers, rk, draw>>

InitMain ==
    /\ args \in MainArgs
    /\ pc = "main_distributed"
    /\ outcome = "RUNNING"
    /\ setup = SetupStart
    /\ step = 0
    /\ lr = Rat(args.lr, 1)
    /\ h = H0
    /\ NotTraining
    /\ NoWorkers
    /\ draw = NoDraw

\* lines 326-331
MainDistributed ==
    /\ pc = "main_distributed"
    /\ IF args.local_rank # None
       THEN /\ \E n \in 1..MaxWorld : world' = n
            /\ setup' = [setup EXCEPT !.process_group = TRUE]
       ELSE UNCHANGED <<world, setup>>
    /\ pc' = "main_validate"
    /\ h' = [h EXCEPT !.last = "main_distributed"]
    /\ UNCHANGED <<args, outcome, mainIdle>>

\* lines 361-364
MainValidate ==
    /\ pc = "main_validate"
    /\ IF ValidAccumulation(args.batch_size, args.gradient_accumulation_steps)
       THEN pc' = "main_data_layers" /\ UNCHANGED outcome
       ELSE pc' = "crashed" /\ outcome' = "ValueError"
    /\ h' = [h EXCEPT !.last = "main_validate"]
    /\ UNCHANGED <<args, world, setup, mainIdle>>

\* lines 371-398
MainDataLayers ==
    /\ pc = "main_data_layers"
    /\ setup' = [setup EXCEPT !.data_layers = TRUE]
    /\ pc' = "main_checkpoint"
    /\ h' = [h EXCEPT !.last = "main_data_layers"]
    /\ UNCHANGED <<args, outcome, world, mainIdle>>

\* lines 404-419: torch.load and load_state_dict when --ckpt is given
MainCheckpoint ==
    /\ pc = "main_checkpoint"
    /\ setup' = [setup EXCEPT !.checkpoint_loaded = args.ckpt]
    /\ pc' = "main_schedule"
    /\ h' = [h EXCEPT !.last = "main_checkpoint"]
    /\ UNCHANGED <<args, outcome, world, mainIdle>>

\* lines 436-452: step_per_epoch and fn_lr_policy; nothing is evaluated or checked
MainSchedule ==
    /\ pc = "main_schedule"
    /\ setup' = [setup EXCEPT !.schedule = TRUE]
    /\ pc' = "main_to_device"
    /\ h' = [h EXCEPT !.last = "main_schedule"]
    /\ UNCHANGED <<args, outcome, world, mainIdle>>

\* lines 455-457
MainToDevice ==
    /\ pc = "main_to_device"
    /\ setup' = [setup EXCEPT !.on_device = TRUE]
    /\ pc' = "main_optimizer"
    /\ h' = [h EXCEPT !.last = "main_to_device"]
    /\ UNCHANGED <<args, outcome, world, mainIdle>>

\* lines 459-473
MainOptimizer ==
    /\ pc = "main_optimizer"
    /\ IF args.optimizer_kind \in OptimizerKinds
       THEN /\ setup' = [setup EXCEPT !.optimizer = TRUE]
            /\ pc' = "main_train"
            /\ UNCHANGED outcome
       ELSE /\ pc' = "crashed"
            /\ outcome' = "ValueError"
            /\ UNCHANGED setup
    /\ h' = [h EXCEPT !.last = "main_optimizer"]
    /\ UNCHANGED <<args, world, mainIdle>>

\* lines 483-504
MainTrain ==
    /\ pc = "main_train"
    /\ setup' = [setup EXCEPT !.train_called = TRUE]
    /\ pc' = "train"
    /\ h' = [h EXCEPT !.last = "main_train"]
    /\ UNCHANGED <<args, outcome, world, mainIdle>>

NextMain ==
    \/ MainDistributed
    \/ MainValidate
    \/ MainDataLayers
    \/ MainCheckpoint
    \/ MainSchedule
    \/ MainToDevice
    \/ MainOptimizer
    \/ MainTrain

SpecMain == InitMain /\ [][NextMain]_vars

\* ------------------------------------------------ a checkpoint saved and loaded
\* save() (lines 63-87) followed by the load of main() (lines 404-419, 485-486) in a
\* new process, whose model and optimizer are freshly constructed (lines 395, 459-471).

\* keys of audio_preprocessor.state_dict() (line 407): the buffers of the feature
\* extractor
PreKeys == {"fb"}

\* line 411: the key of the model's state dict that "audio_preprocessor." + k names
Prefixed(k) == "audio_preprocessor." \o k

\* keys of model.state_dict(): the preprocessor's entries under their prefix, and the
\* weights of encoder and decoder
ModelKeys == {Prefixed(k) : k \in PreKeys} \cup {"jasper_encoder.weight"}

ModelStates == [ModelKeys -> 0..MaxParam]

\* lines 407-411: every preprocessor entry is moved from its prefixed key to the bare one
RenamePreprocessorKeys(sd) ==
    [k \in (DOMAIN sd \ {Prefixed(q) : q \in PreKeys}) \cup PreKeys |->
        IF k \in PreKeys THEN sd[Prefixed(k)] ELSE sd[k]]

\* line 412, model.load_state_dict(sd, strict=False): entries whose key the model has
\* are copied, other entries are ignored, entries the dict lacks stay as they are
load_state_dict(current, sd) ==
    [k \in DOMAIN current |-> IF k \in DOMAIN sd THEN sd[k] ELSE current[k]]

CheckpointDraws ==
    [ M : ModelStates,                 \* the state saved last: model,
      O : 0..MaxParam,                 \*   optimizer
      e : 0..MaxEpochRun,              \*   and epoch
      save_optimizer : BOOLEAN,
      saves : {0},
      fresh : ModelStates,             \* the model the loading process constructs
      resume_from_ckpt : BOOLEAN,
      load_optimizer_state : BOOLEAN,
      loaded : {None} ]

InitCheckpoint ==
    /\ draw \in CheckpointDraws
    /\ pc = "save_call"
    /\ outcome = "RUNNING"
    /\ args = <<>>
    /\ step = 0
    /\ lr = Rat(MaxLr, 1)
    /\ h = H0
    /\ NotTraining
    /\ NoWorkers
    /\ setup = NoSetup

checkpointIdle == <<args, step, lr, h, epoch, patience, batch_counter, it, prev_best_wer,
                    prev_best_epoch_wer, e_wer, model, restarts, grads, workers, setup,
                    rk>>

\* save(model, optimizer, epoch, output_dir, save_optimizer) by the sole process
CheckpointSave ==
    /\ pc = "save_call"
    /\ disk' = [disk EXCEPT ![OutputDir] =
                    save_checkpoint(draw.M, draw.O, draw.e, draw.save_optimizer)]
    /\ draw' = [draw EXCEPT !.saves = @ + 1]
    /\ pc' = "saved"
    /\ UNCHANGED <<outcome, checkpointIdle>>

\* a later save() to the same destination, of another state
CheckpointSaveAgain ==
    /\ pc = "saved"
    /\ draw.saves = 1
    /\ \E M2 \in ModelStates, O2 \in 0..MaxParam, e2 \in 0..MaxEpochRun :
          /\ disk' = [disk EXCEPT ![OutputDir] =
                          save_checkpoint(M2, O2, e2, draw.save_optimizer)]
          /\ draw' = [draw EXCEPT !.M = M2, !.O = O2, !.e = e2, !.saves = @ + 1]
    /\ UNCHANGED <<pc, outcome, checkpointIdle>>

\* main, lines 404-419 and 485-486, with --ckpt <output_dir>/Jasper.pt: the model, the
\* start epoch and the optimizer state train() is called with.  The state of the
\* freshly built optimizer is 0; loading 'optimizer': None raises.
CheckpointLoad ==
    /\ pc = "saved"
    /\ LET checkpoint == disk[OutputDir]
           sd == RenamePreprocessorKeys(checkpoint.state_dict)
       IN  IF draw.load_optimizer_state /\ checkpoint.optimizer = None
           THEN /\ pc' = "crashed"
                /\ outcome' = "TypeError"
                /\ UNCHANGED draw
           ELSE /\ draw' = [draw EXCEPT !.loaded =
                               [ model |-> load_state_dict(draw.fresh, sd),
                                 start_epoch |-> IF draw.resume_from_ckpt
                                                 THEN checkpoint.epoch ELSE 0,
                                 optimizer |-> IF draw.load_optimizer_state
                                               THEN checkpoint.optimizer ELSE 0 ]]
                /\ pc' = "loaded"
                /\ UNCHANGED outcome
    /\ UNCHANGED <<disk, checkpointIdle>>

NextCheckpoint ==
    \/ CheckpointSave
    \/ CheckpointSaveAgain
    \/ CheckpointLoad

SpecCheckpoint == InitCheckpoint /\ [][NextCheckpoint]_vars

\* --------------------------------------- the learning-rate policies on their own
\* fn_lr_policy applied to step = 0, 1, 2, ... as the head of each accumulation
\* window applies it (train, lines 209-214 and 277), for schedules of up to
\* MaxPolicyEpochs * MaxPolicySteps steps.

PolicyArgs ==
    [ lr : 1..MaxLr,
      lr_decay : {"decay", "warmup"},
      num_epochs : 0..MaxPolicyEpochs,
      step_per_epoch : 0..MaxPolicySteps ]

InitPolicy ==
    /\ args \in PolicyArgs
    /\ pc = "policy_call"
    /\ outcome = "RUNNING"
    /\ step = 0
    /\ lr = Rat(args.lr, 1)
    /\ h = H0
    /\ NotTraining
    /\ NoWorkers
    /\ setup = NoSetup
    /\ draw = NoDraw

\* train, lines 211-214: adjusted_lr = fn_lr_policy(step) is set on the optimizer
PolicyCall ==
    /\ pc = "policy_call"
    /\ LET adjusted_lr == AdjustedLr(args, step, lr)
       IN  IF adjusted_lr = DivByZero
           THEN /\ pc' = "crashed"
                /\ outcome' = "ZeroDivisionError"
                /\ h' = [h EXCEPT !.last = "raise"]
                /\ UNCHANGED lr
           ELSE /\ lr' = adjusted_lr
                /\ pc' = "policy_set"
                /\ h' = [h EXCEPT !.last = "policy_call", !.lr_step = step]
                /\ UNCHANGED outcome
    /\ UNCHANGED <<args, step, trainIdle, workers, setup, rk, draw>>

\* train, line 277: step += 1
PolicyAdvance ==
    /\ pc = "policy_set"
    /\ step < TotalSteps(args) + MaxBeyond
    /\ step' = step + 1
    /\ pc' = "policy_call"
    /\ h' = [h EXCEPT !.last = "step_inc"]
    /\ UNCHANGED <<args, outcome, lr, trainIdle, workers, setup, rk, draw>>

NextPolicy ==
    \/ PolicyCall
    \/ PolicyAdvance

SpecPolicy == InitPolicy /\ [][NextPolicy]_vars

\* ------------------------------------------------------------- properties

\* a step of the running process, as opposed to its being killed and started again
RunStep == h'.last # "restart"

LeftLoop == outcome \in {"DONE", "EARLY_STOPPED", "STEP_BUDGET"}

LatestOf(ep, mdl) == [epoch |-> ep, state_dict |-> mdl, optimizer |-> mdl]
BestOf(ep, mdl) == [epoch |-> ep, state_dict |-> mdl, optimizer |-> None]

\* C1: at the check that ends an epoch, patience is reset to 0 only when the epoch's
\* metric is lower than prev_best_epoch_wer by more than the threshold 0.01; in every
\* other case (equal to the best, less than or exactly 0.01 below it, worse) patience
\* is incremented by 1.
C1_ResetOnlyBeyondThreshold ==
    [][ (pc = "patience_check" /\ e_wer # None /\ RunStep)
        => IF e_wer < prev_best_epoch_wer - ImprovementThreshold
           THEN patience' = 0
           ELSE patience' = patience + 1 ]_vars

\* C2: when the check that ends an epoch increments patience to early_stop_patience,
\* the loop is left at once with outcome EARLY_STOPPED, and from then on the run
\* takes no step but the evaluation after the loop: no micro-batch, no optimizer
\* step, no checkpoint write, whatever epoch and step are.
C2_EarlyStopExitsAtOnce ==
    /\ [][ (pc = "patience_check" /\ RunStep /\ patience' = patience + 1
               /\ patience' = args.early_stop_patience)
           => (pc' = "final_eval" /\ outcome' = "EARLY_STOPPED") ]_vars
    /\ [](outcome = "EARLY_STOPPED"
            => patience = args.early_stop_patience /\ pc \in {"final_eval", "done"})
    /\ [][ (outcome = "EARLY_STOPPED" /\ RunStep)
           => /\ h'.last = "final_eval"
              /\ h'.micro = h.micro /\ h'.opt = h.opt
              /\ UNCHANGED <<model, disk, epoch, step>> ]_vars

C2_Witness ==
    /\ pc = "done" /\ outcome = "EARLY_STOPPED"
    /\ epoch < args.num_epochs
    /\ (args.num_steps = None \/ step < args.num_steps)

C4_StepBudgetExact ==
    /\ ~h.late_opt
    /\ (outcome = "STEP_BUDGET" => step = args.num_steps)
    /\ (outcome = "DONE" => args.num_steps = None)
    /\ (pc \in {"final_eval", "done"} /\ args.num_steps # None
            /\ outcome # "EARLY_STOPPED"
         => outcome = "STEP_BUDGET" /\ step = args.num_steps)

\* C5: a run resumed from the 'latest' checkpoint written at the end of epoch e,
\* when the step counter was s, begins with epoch = e and step = s.
C5_ResumeRestoresStep ==
    (h.last = "restart" /\ ~args.same_dir)
    => (epoch = disk[OutputDir].epoch /\ step = h.resumed_from)

\* C6: whenever the comparison that ends an epoch executes, an evaluation has run in
\* this run and has assigned the metric it reads.
C6_MetricAssignedBeforeCheck ==
    pc = "patience_check" => (e_wer # None /\ h.evals >= 1)

\* C7: a run that has left the loop (DONE, EARLY_STOPPED or the step budget) can take
\* one step only, the evaluation after the loop, which completes; it runs exactly
\* once and changes neither prev_best_wer, prev_best_epoch_wer, patience nor any
\* checkpoint file.
C7_FinalEvalUnconditional ==
    /\ [](LeftLoop <=> pc \in {"final_eval", "done"})
    /\ [](pc = "final_eval" => h.final_evals = 0 /\ ~EvalRaises(args) /\ ENABLED FinalEval)
    /\ [](pc = "done" => h.final_evals = 1)
    /\ [][ (pc = "final_eval" /\ RunStep)
           => /\ h'.last = "final_eval" /\ pc' = "done"
              /\ UNCHANGED <<prev_best_wer, prev_best_epoch_wer, patience, disk>> ]_vars

C7_Witness ==
    /\ pc = "done" /\ outcome = "STEP_BUDGET"
    /\ ~args.save_after_each_epoch /\ h.evals >= 1
    /\ disk[BestDir] # NoFile

\* C8 as stated: whenever all micro-batches of an epoch have been pulled, the next
\* step increments epoch and goes on to write the 'latest' checkpoint.
C8_LatestAtEveryEpochEnd ==
    [][ (pc = "after_loop" /\ it = args.num_batches /\ RunStep)
        => (epoch' = epoch + 1 /\ pc' = "save_latest") ]_vars

\* C8 as amended: after the micro-batch loop, unless the step budget is reached (in
\* which case the loop is left with epoch and the files as they are), epoch is
\* incremented first, then 'latest' is written with the model, the optimizer state
\* and the incremented epoch, and only then follow the evaluation of the epoch
\* boundary and the early-stopping check, in either mode and whatever patience is.
C8_LatestAtEpochEndUnlessBudget ==
    /\ [][ (pc = "after_loop" /\ RunStep)
           => IF BudgetReached(step, args)
              THEN pc' = "final_eval" /\ UNCHANGED <<epoch, disk>>
              ELSE pc' = "save_latest" /\ epoch' = epoch + 1 /\ UNCHANGED disk ]_vars
    /\ [][ (pc = "save_latest" /\ RunStep)
           => /\ disk'[OutputDir] = LatestOf(epoch, model)
              /\ UNCHANGED <<epoch, e_wer, patience, prev_best_epoch_wer>>
              /\ pc' = IF args.save_after_each_epoch
                       THEN "epoch_eval" ELSE "patience_check" ]_vars
    /\ [](pc \in {"epoch_eval", "patience_check"}
            => /\ disk[OutputDir] = LatestOf(epoch, model)
               /\ h.last \in {"save_latest", "epoch_eval"})

C8_Witness ==
    /\ pc = "patience_check" /\ h.last = "save_latest"
    /\ patience >= 1 /\ epoch >= 2

C10_BestOnlyOnImprovement ==
    /\ [][ h'.last = "save_best"
           => \/ /\ pc = "interval_eval" /\ ~args.save_after_each_epoch
                 /\ e_wer' < prev_best_wer /\ prev_best_wer' = e_wer'
                 /\ disk'[BestDir] = BestOf(epoch, model)
              \/ /\ pc = "patience_check" /\ args.save_after_each_epoch
                 /\ h.last = "epoch_eval"
                 /\ e_wer < prev_best_epoch_wer /\ prev_best_epoch_wer' = e_wer
                 /\ disk'[BestDir] = BestOf(epoch, model) ]_vars
    /\ [][ (RunStep /\ ~args.same_dir /\ disk'[BestDir] # disk[BestDir])
           => h'.last = "save_best" ]_vars
    /\ [][ RunStep => /\ prev_best_wer' <= prev_best_wer
                      /\ prev_best_epoch_wer' <= prev_best_epoch_wer ]_vars
    /\ [](prev_best_wer = h.min_interval /\ prev_best_epoch_wer = h.min_epoch)

C10_Witness ==
    /\ h.last = "save_best" /\ h.evals >= 3
    /\ ~args.same_dir
    /\ disk[BestDir].optimizer = None /\ disk[BestDir].state_dict # None
    /\ prev_best_wer < MaxWer

\* the learning rate was set by the quadratic policy with a horizon of at least one
\* step, and the step it was set for lies inside the horizon
DecayInside ==
    /\ args.lr_decay = "decay" /\ TotalSteps(args) >= 1
    /\ pc = "policy_set" /\ step <= TotalSteps(args)

\* C11 as stated: inside the horizon (total_steps >= 1, 0 <= step <= total_steps) and
\* for every initial_lr > 0, the quadratic policy's value at a step is not above its
\* value at the step before, is never below floor_lr, equals initial_lr at step 0 and
\* equals floor_lr at step = total_steps.
C11_QuadraticInsideHorizon ==
    /\ [][ (pc = "policy_call" /\ args.lr_decay = "decay" /\ TotalSteps(args) >= 1
               /\ 1 <= step /\ step <= TotalSteps(args))
           => (pc' = "policy_set" /\ RatLeq(lr', lr)) ]_vars
    /\ [](DecayInside => RatLeq(Rat(FloorLr, 1), lr))
    /\ [](DecayInside /\ step = 0 => RatEq(lr, Rat(args.lr, 1)))
    /\ [](DecayInside /\ step = TotalSteps(args) => RatEq(lr, Rat(FloorLr, 1)))

\* C11 as amended: the same, with the value at step 0 equal to initial_lr for every
\* initial_lr >= floor_lr, and equal to floor_lr for a smaller initial_lr.
C11_QuadraticInsideHorizonFromFloor ==
    /\ [][ (pc = "policy_call" /\ args.lr_decay = "decay" /\ TotalSteps(args) >= 1
               /\ 1 <= step /\ step <= TotalSteps(args))
           => (pc' = "policy_set" /\ RatLeq(lr', lr)) ]_vars
    /\ [](DecayInside => RatLeq(Rat(FloorLr, 1), lr))
    /\ [](DecayInside /\ step = 0
            => RatEq(lr, Rat(IF args.lr >= FloorLr THEN args.lr ELSE FloorLr, 1)))
    /\ [](DecayInside /\ step = TotalSteps(args) => RatEq(lr, Rat(FloorLr, 1)))

C11_Witness ==
    /\ DecayInside /\ step = TotalSteps(args) /\ step >= 4
    /\ args.lr > FloorLr
    /\ RatEq(lr, Rat(FloorLr, 1))

\* C12: for every step the training loop passes to the quadratic policy, steps past
\* the horizon num_epochs * step_per_epoch included, the learning rate the policy
\* sets is not above the one it set before, and it is floor_lr whenever the step is
\* at or past the horizon.  Stated for runs that were never resumed, where the step
\* passes the horizon only because num_steps exceeds it.
C12_QuadraticBeyondHorizon ==
    /\ [][ (restarts = 0 /\ args.lr_decay = "decay" /\ RunStep /\ h.lr_step # None
               /\ h'.lr_step # h.lr_step)
           => RatLeq(lr', lr) ]_vars
    /\ [](restarts = 0 /\ args.lr_decay = "decay" /\ h.lr_step # None
               /\ h.lr_step >= TotalSteps(args)
            => RatEq(lr, Rat(FloorLr, 1)))

\* C15: when an evaluation inside the loop (interval or epoch boundary) raises, the run
\* does not end: prev_best_wer, prev_best_epoch_wer and the checkpoint files stay as
\* they are and the loop goes on with what follows that evaluation.
C15_EvalFailureNotFatal ==
    [][ (pc \in {"interval_eval", "epoch_eval"} /\ EvalRaises(args) /\ RunStep)
        => /\ pc' = (IF pc = "interval_eval" THEN "step_inc" ELSE "patience_check")
           /\ outcome' = "RUNNING"
           /\ UNCHANGED <<prev_best_wer, prev_best_epoch_wer, disk>> ]_vars

\* main, line 438, for one process or a group of world ranks
StepPerEpochOf(a) ==
    CeilDiv(a.n_examples, a.batch_size * (IF world = 0 THEN 1 ELSE world))

\* the configuration errors C16 lists
ConfigurationError(a) ==
    \/ a.gradient_accumulation_steps < 1
    \/ a.batch_size % a.gradient_accumulation_steps # 0
    \/ a.optimizer_kind \notin OptimizerKinds
    \/ a.lr_decay # "none" /\ a.num_epochs * StepPerEpochOf(a) = 0

\* C16: with one of these errors in the configuration, main() never initialises the
\* process group, loads a checkpoint, moves the model to the device or calls train().
C16_ConfigurationErrorsFailFast ==
    ConfigurationError(args)
    => /\ ~setup.process_group
       /\ ~setup.checkpoint_loaded
       /\ ~setup.on_device
       /\ ~setup.train_called

\* C17: a checkpoint saved with the optimizer state and loaded by a resumed run
\* (--resume_from_ckpt --load_optimizer_state) gives back the epoch, every entry of
\* the model, the audio preprocessor's included, and the optimizer state that were
\* saved last; the file holds exactly what was saved last.
C17_CheckpointRoundTrip ==
    /\ (pc \in {"saved", "loaded"}
          => disk[OutputDir] = [epoch |-> draw.e, state_dict |-> draw.M,
                                optimizer |-> IF draw.save_optimizer
                                              THEN draw.O ELSE None])
    /\ (pc = "loaded" /\ draw.save_optimizer /\ draw.resume_from_ckpt
            /\ draw.load_optimizer_state)
          => /\ draw.loaded.start_epoch = draw.e
             /\ \A k \in ModelKeys : draw.loaded.model[k] = draw.M[k]
             /\ draw.loaded.optimizer = draw.O

\* total_steps and warmup_steps of the run's schedule
Horizon == TotalSteps(args)
WarmupOf == WarmupSteps(TotalSteps(args))

\* the warmup policy with a warmup of at least one step
Warm == args.lr_decay = "warmup" /\ WarmupSteps(TotalSteps(args)) >= 1

\* C13: under the warmup policy with warmup_steps = floor(0.1 * total_steps) >= 1, the
\* learning rate strictly increases from step to step while step < warmup_steps, is
\* initial_lr at step = warmup_steps - 1, and at every later step is
\* max(initial_lr * (total_steps - (step + 1)) / (total_steps - warmup_steps), floor_lr),
\* which does not increase from step to step and is never below floor_lr.
C13_WarmupThenLinearDecay ==
    /\ [][ (pc = "policy_call" /\ Warm /\ 1 <= step /\ step < WarmupOf)
           => (pc' = "policy_set" /\ RatLess(lr, lr')) ]_vars
    /\ [](Warm /\ pc = "policy_set" /\ step = WarmupOf - 1
            => RatEq(lr, Rat(args.lr, 1)))
    /\ [](Warm /\ pc = "policy_set" /\ step >= WarmupOf
            => /\ RatLeq(Rat(FloorLr, 1), lr)
               /\ IF args.lr * (Horizon - (step + 1)) >= FloorLr * (Horizon - WarmupOf)
                  THEN RatEq(lr, Rat(args.lr * (Horizon - (step + 1)),
                                     Horizon - WarmupOf))
                  ELSE RatEq(lr, Rat(FloorLr, 1)))
    /\ [][ (pc = "policy_call" /\ Warm /\ step >= WarmupOf + 1)
           => (pc' = "policy_set" /\ RatLeq(lr', lr)) ]_vars

C13_Witness ==
    /\ Warm /\ pc = "policy_set"
    /\ WarmupSteps(TotalSteps(args)) >= 2
    /\ step = WarmupSteps(TotalSteps(args)) + 1
    /\ RatLess(Rat(FloorLr, 1), lr) /\ RatLess(lr, Rat(args.lr, 1))

\* a configured schedule of zero steps, or a warmup of zero steps
Degenerate(a) ==
    /\ a.lr_decay # "none"
    /\ \/ TotalSteps(a) = 0
       \/ a.lr_decay = "warmup" /\ WarmupSteps(TotalSteps(a)) = 0

\* C14: a run whose configured schedule has total_steps = 0, or warmup_steps = 0
\* under the warmup policy, trains no micro-batch, is never given a learning rate by
\* the policy and never ends in a division-by-zero error.
C14_DegenerateScheduleRejected ==
    Degenerate(args)
    => (h.lr_step = None /\ h.micro = 0 /\ outcome # "ZeroDivisionError")

\* ---------------------------------------------------------------- C18
\* the boundaries two ranks have both come to are the same boundaries, with the same
\* values
SameSoFar(l1, l2) ==
    \A i \in 1..Min(Len(l1), Len(l2)) : l1[i] = l2[i]

EvalsOf(l) == Cardinality({i \in 1..Len(l) : l[i][1] \in EvalPc})

RECURSIVE PairsOf(_, _)
PairsOf(batches, n) == IF n = 0 THEN <<>> ELSE PairsOf(batches, n - 1) \o batches[n]

\* the edit distances of the pairs summed, over the reference words of the pairs summed
MicroAverage(pairs) == Rat(TotalErrors(pairs), TotalWords(pairs))

PassDone == pc = "eval_done"

C20_EveryMicroBatchAccumulates ==
    pc = "optimizer_step" =>
        /\ BackwardRuns(OptimLevel(args))
        /\ grads = args.gradient_accumulation_steps

\* ---------------------------------------------------------------- C21
\* C21: in a fresh run with interval evaluation, an optimizer step is followed by an
\* evaluation exactly when the step counter, counted with that optimizer step, is
\* positive and divisible by eval_frequency.
C21_IntervalEvalCadence ==
    [][ (RunStep /\ pc = "optimizer_step" /\ restarts = 0
           /\ ~args.save_after_each_epoch)
        => (pc' = "interval_eval"
              <=> (step + 1 > 0 /\ (step + 1) % args.eval_frequency = 0)) ]_vars

\* ---------------------------------------------------------------- C22
\* epochs completed by this run (since its start or its resumption)
EpochsCompleted == epoch - args.start_epoch

\* C22: with --save_after_each_epoch no evaluation is started inside the micro-batch
\* loop and prev_best_wer keeps its initial value; the 'latest' checkpoint of every
\* completed epoch is followed by one evaluation, which is followed by the
\* early-stopping check, so at every check the run has started one evaluation for
\* each epoch it has completed.
C22_EpochBoundaryCadence ==
    /\ [](args.save_after_each_epoch =>
            /\ pc # "interval_eval"
            /\ prev_best_wer = InitialBestWer
            /\ pc = "epoch_eval" => h.evals = EpochsCompleted - 1
            /\ pc = "patience_check" => h.evals = EpochsCompleted)
    /\ [][ (RunStep /\ args.save_after_each_epoch /\ pc = "save_latest")
            => pc' = "epoch_eval" ]_vars
    /\ [][ (RunStep /\ args.save_after_each_epoch /\ pc' = "patience_check")
            => (pc = "epoch_eval" /\ h'.evals = h.evals + 1) ]_vars

\* the early-stopping check of the second epoch of a run with --save_after_each_epoch
\* whose optimizer steps passed a multiple of eval_frequency
C22_Witness ==
    /\ args.save_after_each_epoch
    /\ pc = "patience_check"
    /\ h.evals = 2
    /\ step >= 2
    /\ args.eval_frequency = 1

\* ---------------------------------------------------------------- C23
\* the early-stopping check of an epoch that has a metric to compare
EpochEndCheck == RunStep /\ pc = "patience_check" /\ e_wer # None

\* C23 as stated: at every epoch-end check whose metric is strictly lower than
\* prev_best_epoch_wer the 'best' checkpoint is written, without optimizer state, and
\* prev_best_epoch_wer becomes the metric, in both modes; otherwise both are left
\* unchanged.
C23_EpochBestCheckpoint ==
    [][ EpochEndCheck =>
          IF e_wer < prev_best_epoch_wer
          THEN /\ prev_best_epoch_wer' = e_wer
               /\ disk'[BestDir] = save_checkpoint(model, model, epoch, FALSE)
          ELSE /\ prev_best_epoch_wer' = prev_best_epoch_wer
               /\ disk'[BestDir] = disk[BestDir] ]_vars

\* C23 amended: prev_best_epoch_wer becomes the metric in both modes; the 'best'
\* checkpoint is written only in a run with --save_after_each_epoch, and a run with
\* interval evaluation leaves the file as it is.
C23_EpochBestCheckpointInEpochMode ==
    [][ EpochEndCheck =>
          IF e_wer < prev_best_epoch_wer
          THEN /\ prev_best_epoch_wer' = e_wer
               /\ disk'[BestDir] = IF args.save_after_each_epoch
                                   THEN save_checkpoint(model, model, epoch, FALSE)
                                   ELSE disk[BestDir]
          ELSE /\ prev_best_epoch_wer' = prev_best_epoch_wer
               /\ disk'[BestDir] = disk[BestDir] ]_vars

\* the check of a later epoch has just replaced the 'best' checkpoint of an earlier one
C23_Witness ==
    /\ args.save_after_each_epoch
    /\ h.last = "save_best"
    /\ epoch >= 2
    /\ h.min_epoch = e_wer
    /\ prev_best_epoch_wer = e_wer
    /\ disk[BestDir] = save_checkpoint(model, model, epoch, FALSE)
    /\ ~args.same_dir

\* ---------------------------------------------------------------- C24
\* a micro-batch has been pulled and has got past line 216
MicroBatchStep == RunStep /\ pc = "loop" /\ h'.last \in {"micro_batch", "raise"}
                          /\ outcome' # "ZeroDivisionError"

\* the step counter at the start of this run
StartStep == args.start_epoch * args.step_per_epoch

Local ==
    [ rank |-> 0, pc |-> pc, outcome |-> outcome, epoch |-> epoch, step |-> step,
      patience |-> patience, batch_counter |-> batch_counter, it |-> it,
      prev_best_wer |-> prev_best_wer, prev_best_epoch_wer |-> prev_best_epoch_wer,
      e_wer |-> e_wer, model |-> model, log |-> <<>> ]

\* the same command line without --fp16
FullPrecision(a) == [a EXCEPT !.fp16 = FALSE]

\* C25: every step of the epoch loop and of the micro-batch loop is the step the run
\* without --fp16 takes from the same local variables, and no evaluation raises
\* because of the optimization level.
C25_PrecisionIndependence ==
    /\ [][ (RunStep /\ pc \in {"epoch_head", "loop", "optimizer_step", "step_inc",
                                "after_loop"})
            => Local' = LocalStep(FullPrecision(args), Local) ]_vars
    /\ [][ (RunStep /\ pc \in EvalPc) => outcome' # "NameError" ]_vars

\* ---------------------------------------------------------------- C26
\* C26: a run that is not killed and in which nothing raises (no --fp16, and
\* --save_after_each_epoch so that every early-stopping check has a metric) leaves
\* the epoch loop and comes to the final evaluation, whatever the training set and the
\* metrics are, with or without --num_steps.
C26_EveryRunTerminates ==
    (~args.fp16 /\ args.save_after_each_epoch) => <>(rk[0].pc = "final_eval")

\* ---------------------------------------------------------------- C27
\* C27: for every integer --early_stop_patience the assertion of line 305 holds:
\* patience, once counted up, never exceeds early_stop_patience, and a run that stops
\* early does so with patience = early_stop_patience.
C27_PatienceAssertionHolds ==
    /\ outcome # "AssertionError"
    /\ patience > 0 => patience <= args.early_stop_patience
    /\ outcome = "EARLY_STOPPED" => patience = args.early_stop_patience

\* ---------------------------------------------------------------- C28
\* C28: when train() has returned, <output_dir>/Jasper.pt holds the model and the
\* optimizer state left by the last optimizer step of the run, however the run ended
\* (output_dir and best_dir being different directories).
C28_LatestIsFinalState ==
    (pc = "done" /\ ~args.same_dir) =>
        /\ disk[OutputDir] # NoFile
        /\ disk[OutputDir].state_dict = model
        /\ disk[OutputDir].optimizer = model

\* ---------------------------------------------------------------- C29
\* C29: in a run with interval evaluation, the early-stopping check at the end of an
\* epoch compares a metric that an evaluation of that epoch returned.
C29_EpochMetricIsFresh ==
    (pc = "patience_check" /\ ~args.save_after_each_epoch /\ e_wer # None)
        => h.epoch_evals >= 1

\* ---------------------------------------------------------------- C30
\* C30: a resumed run goes on with the prev_best_wer, prev_best_epoch_wer and patience
\* of the run it resumes, and <best_dir>/Jasper.pt, once written, is only written
\* again for a metric strictly lower than the one it was last written for, in the
\* same run or in a resumed one.
C30_BestOnlyImprovesAcrossRestart ==
    /\ [][ h'.last = "restart"
            => /\ prev_best_wer' = prev_best_wer
               /\ prev_best_epoch_wer' = prev_best_epoch_wer
               /\ patience' = patience ]_vars
    /\ [][ (h'.last = "save_best" /\ h.best_wer # None)
            => h'.best_wer < h.best_wer ]_vars

\* ---------------------------------------------------------------- C31
\* C31: a write of the 'best' checkpoint leaves the file of the 'latest' checkpoint as
\* it is and a write of the 'latest' checkpoint leaves the file of the 'best'
\* checkpoint as it is, whether or not output_dir and best_dir name the same
\* directory; the 'latest' file, once written, always holds an optimizer state.
C31_SlotsIndependent ==
    /\ [][ (RunStep /\ h'.last = "save_best")
            => disk'[OutputDir] = disk[OutputDir] ]_vars
    /\ [][ (RunStep /\ h'.last = "save_latest")
            => disk'[BestDir] = disk[BestDir] ]_vars
    /\ [](disk[OutputDir] # NoFile => disk[OutputDir].optimizer # None)
====
